---- MODULE Spec2Model ----
(***************************************************************************)
(* Model of the research workflow of the multi-agent research assistant:   *)
(* ResearchWorkflow (src/workflow.py), its result extractor and            *)
(* contribution analyzer, and the callers in src/app.py and src/demo.py.   *)
(*                                                                         *)
(* Python strings are TLA+ strings (Len, \o and SubSeq act on them), a     *)
(* message is a record whose DOMAIN is the set of keys of the dict, and a  *)
(* Python list that is shared by reference is an entry of `heap`, named by *)
(* its index.                                                              *)
(***************************************************************************)
EXTENDS Integers, Sequences, FiniteSets, TLC

VARIABLES
    heap,              \* the list objects: heap[r] is the content of list r
    group_chat,        \* self.group_chat: agents, messages (a list ref), max_round
    manager,           \* self.manager
    agents,            \* self.agents (the keys of the dict)
    research_history,  \* self.research_history
    pc,                \* position of the running conduct_research call
    frame,             \* locals of the running conduct_research call
    outcome,           \* how the last conduct_research call ended
    now,               \* the clock read by datetime.now()
    last_op,           \* the operation that made the last step
    transcript,        \* argument given to the extractor and the analyzer
    extractor_out,     \* what _extract_research_results returned for it
    analyzer_out,      \* what _analyze_agent_contributions returned for it
    report_out,        \* the last call of export_research_report and its result
    summary_out,       \* the last call of get_research_summary and its result
    provider,          \* what the search provider and the web do in a call
    search_out,        \* what WebSearcher.search and search_web gave
    article_out,       \* what extract_article_content and extract_content gave
    front_end,         \* the program that runs: app.py or a script as demo.py
    OPENAI_API_KEY,    \* Config.OPENAI_API_KEY
    api_key_validated, \* st.session_state.api_key_validated
    workflow,          \* st.session_state.workflow, or `workflow` of the script
    dashboard_history, \* st.session_state.research_history
    current_research   \* st.session_state.current_research

vars == <<heap, group_chat, manager, agents, research_history, pc, frame,
          outcome, now, last_op, transcript, extractor_out, analyzer_out,
          report_out, summary_out, provider, search_out, article_out,
          front_end, OPENAI_API_KEY, api_key_validated, workflow,
          dashboard_history, current_research>>

workflow_vars == <<heap, group_chat, manager, agents, research_history, pc,
                   frame, outcome, now, last_op>>

function_vars == <<transcript, extractor_out, analyzer_out>>

report_vars == <<report_out, summary_out>>

search_vars == <<provider, search_out, article_out>>

front_vars == <<front_end, OPENAI_API_KEY, api_key_validated, workflow,
                dashboard_history, current_research>>

\* Python's None
None == [py |-> "None"]

\* no call of the extractor or the analyzer is under way
IdleFunctions ==
    /\ transcript = << >>
    /\ extractor_out = [done |-> FALSE]
    /\ analyzer_out = [done |-> FALSE]

\* no report or summary was asked for
IdleReports ==
    /\ report_out = [done |-> FALSE]
    /\ summary_out = [done |-> FALSE]

\* no tool of the research agent was called
IdleSearch ==
    /\ provider = [NEWSPAPER_AVAILABLE |-> TRUE]
    /\ search_out = [done |-> FALSE]
    /\ article_out = [done |-> FALSE]

\* a ResearchWorkflow object, whose state the workflow variables hold
Constructed == [py |-> "ResearchWorkflow"]

\* the value of "Max Conversation Rounds" before the user changes it
DefaultRounds == 20

\* the front end: its name, whether its process is running or has exited,
\* whether it has reported a missing credential, the key the .env file
\* holds (demo.py lines 17-18), and the value of "Max Conversation Rounds"
\* in the sidebar
FrontEnd(name, env) ==
    [name |-> name, at |-> "running", reported |-> FALSE, env |-> env,
     max_rounds |-> DefaultRounds]

\* a script that holds a workflow it has constructed
ScriptWithWorkflow ==
    /\ front_end = FrontEnd("script", "")
    /\ OPENAI_API_KEY = "sk-test"
    /\ api_key_validated = FALSE
    /\ workflow = Constructed
    /\ dashboard_history = << >>
    /\ current_research = None

-----------------------------------------------------------------------------
(* Bounds of the model *)

\* longest transcript handed to the extractor and the analyzer
MaxLen == 3

-----------------------------------------------------------------------------
(* dict.get and small helpers *)

\* message.get(key, default)
Get(message, key, default) ==
    IF key \in DOMAIN message THEN message[key] ELSE default

Range(seq) == {seq[i] : i \in 1..Len(seq)}

\* the character of a string at a position, as a one-character string
CharAt(s, i) == SubSeq(s, i, i)

\* the pattern p occurs in s at position i
OccursAt(s, i, p) ==
    /\ i >= 1
    /\ i + Len(p) - 1 <= Len(s)
    /\ SubSeq(s, i, i + Len(p) - 1) = p

\* the Python test `p in s` on strings
Contains(s, p) == \E i \in 1..Len(s) : OccursAt(s, i, p)

-----------------------------------------------------------------------------
(* The URL pattern of the extractor *)

LowerCase == {"a","b","c","d","e","f","g","h","i","j","k","l","m",
              "n","o","p","q","r","s","t","u","v","w","x","y","z"}

UpperCase == {"A","B","C","D","E","F","G","H","I","J","K","L","M",
              "N","O","P","Q","R","S","T","U","V","W","X","Y","Z"}

Digits == {"0","1","2","3","4","5","6","7","8","9"}

\* the class [$-_@.&+]: every character from '$' (0x24) to '_' (0x5F),
\* which takes in the digits, the upper-case letters and '%'
DollarToUnderscore ==
    {"$","%","&","'","(",")","*","+",",","-",".","/",
     ":",";","<","=",">","?","@","[","\\","]","^","_"}
        \cup Digits \cup UpperCase

\* the class [!*\\(\\),] of the raw pattern
BangClass == {"!","*","\\","(",")",","}

\* one repetition of the group (?: ... )+ consumes one of these characters
\* (the %XX alternative only consumes characters the class above also has)
UrlChars == LowerCase \cup UpperCase \cup Digits \cup DollarToUnderscore
                \cup BangClass

\* SchemeEnd with the optional `s` of the pattern left out
SchemeEnd_NoS(s, i) ==
    IF OccursAt(s, i, "http://") THEN i + 7 ELSE 0

\* position after `http[s]?://` matched at position i, 0 when it does not match
SchemeEnd(s, i) ==
    IF OccursAt(s, i, "https://") THEN i + 8
    ELSE IF OccursAt(s, i, "http://") THEN i + 7
    ELSE 0

Min(S) == CHOOSE i \in S : \A j \in S : i <= j

\* first position at or after j whose character is not a URL character: the
\* greedy repetition of the group stops there
RunEnd(s, j) ==
    LET stops == {k \in j..Len(s) : CharAt(s, k) \notin UrlChars}
    IN  IF stops = {} THEN Len(s) + 1 ELSE Min(stops)

\* position after the match of the whole pattern at i, 0 when it does not match
MatchEnd(s, i) ==
    LET j == SchemeEnd(s, i)
    IN  IF j = 0 THEN 0
        ELSE IF RunEnd(s, j) > j THEN RunEnd(s, j)
        ELSE 0

\* first position at or after i where the pattern matches, 0 when there is none
NextMatch(s, i) ==
    LET starts == {k \in i..Len(s) : MatchEnd(s, k) # 0}
    IN  IF starts = {} THEN 0 ELSE Min(starts)

RECURSIVE FindAllFrom(_, _)
\* the matches from position i on: the scan resumes where a match ended
FindAllFrom(s, i) ==
    LET k == NextMatch(s, i)
    IN  IF k = 0 THEN << >>
        ELSE <<SubSeq(s, k, MatchEnd(s, k) - 1)>>
                 \o FindAllFrom(s, MatchEnd(s, k))

\* re.findall(pattern, content): the non-overlapping matches, left to right
re_findall(content) == FindAllFrom(content, 1)

-----------------------------------------------------------------------------
(* _extract_research_results *)

FindingMinLength == 50

SummaryMinLength == 100

EmptyResults ==
    [findings |-> << >>, sources |-> << >>, synthesis |-> "",
     critique |-> "", recommendations |-> << >>]

\* lines 150-153: the URLs of a research message go to sources
ExtendSources(results, content) ==
    IF Contains(content, "http")
    THEN [results EXCEPT !.sources = @ \o re_findall(content)]
    ELSE results

\* AppendFinding with the test `>=` in place of `>`
AppendFinding_AtLeast(results, content, name) ==
    IF Len(content) >= FindingMinLength
    THEN [results EXCEPT
            !.findings = Append(@, [content |-> content, agent |-> name])]
    ELSE results

\* lines 156-160: a research message that is long enough becomes a finding
AppendFinding(results, content, name) ==
    IF Len(content) > FindingMinLength
    THEN [results EXCEPT
            !.findings = Append(@, [content |-> content, agent |-> name])]
    ELSE results

\* ResearchBranch with the URL extraction nested under the length test
ResearchBranch_Nested(results, content, name) ==
    IF Len(content) > FindingMinLength
    THEN AppendFinding(ExtendSources(results, content), content, name)
    ELSE results

\* lines 149-160
ResearchBranch(results, content, name) ==
    AppendFinding(ExtendSources(results, content), content, name)

\* SynthesisBranch that adds to the text instead of replacing it
SynthesisBranch_Concat(results, content) ==
    [results EXCEPT !.synthesis = @ \o content]

\* lines 163-164
SynthesisBranch(results, content) ==
    [results EXCEPT !.synthesis = content]

\* lines 167-168
CritiqueBranch(results, content) ==
    [results EXCEPT !.critique = content]

\* ExtractMessage that treats every speaker but the synthesis and the critique
\* agent as the research agent
ExtractMessage_AnySpeaker(results, message) ==
    LET content == Get(message, "content", "")
        name    == Get(message, "name", "")
    IN  IF name = "synthesis_agent" /\ Len(content) > SummaryMinLength
        THEN SynthesisBranch(results, content)
        ELSE IF name = "critique_agent" /\ Len(content) > SummaryMinLength
        THEN CritiqueBranch(results, content)
        ELSE IF name \notin {"synthesis_agent", "critique_agent"}
        THEN ResearchBranch(results, content, name)
        ELSE results

\* one iteration of the loop of lines 144-168
ExtractMessage(results, message) ==
    LET content == Get(message, "content", "")
        name    == Get(message, "name", "")
    IN  IF name = "research_agent"
        THEN ResearchBranch(results, content, name)
        ELSE IF name = "synthesis_agent" /\ Len(content) > SummaryMinLength
        THEN SynthesisBranch(results, content)
        ELSE IF name = "critique_agent" /\ Len(content) > SummaryMinLength
        THEN CritiqueBranch(results, content)
        ELSE results

RECURSIVE ScanMessages(_, _)
\* the loop of lines 144-168 over the messages, starting from `results`
ScanMessages(results, messages) ==
    IF messages = << >> THEN results
    ELSE ScanMessages(ExtractMessage(results, Head(messages)), Tail(messages))

\* list_set without the pass through set()
list_set_Keep(sources) == {sources}

\* list(set(sources)): the distinct elements, in an order Python does not fix
list_set(sources) ==
    LET S == Range(sources)
    IN  {q \in [1..Cardinality(S) -> S] : Range(q) = S}

\* the values _extract_research_results may return for the messages
_extract_research_results(messages) ==
    LET results == ScanMessages(EmptyResults, messages)
    IN  {[results EXCEPT !.sources = q] : q \in list_set(results.sources)}

-----------------------------------------------------------------------------
(* _analyze_agent_contributions *)

\* CountMessage with the default of the extractor, "", for a missing name
CountMessage_EmptyDefault(contributions, message) ==
    LET agent_name == Get(message, "name", "")
    IN  [n \in DOMAIN contributions \cup {agent_name} |->
            IF n = agent_name
            THEN Get(contributions, n, 0) + 1
            ELSE contributions[n]]

\* line 188-189: one iteration of the loop
CountMessage(contributions, message) ==
    LET agent_name == Get(message, "name", "unknown")
    IN  [n \in DOMAIN contributions \cup {agent_name} |->
            IF n = agent_name
            THEN Get(contributions, n, 0) + 1
            ELSE contributions[n]]

RECURSIVE CountMessages(_, _)
CountMessages(contributions, messages) ==
    IF messages = << >> THEN contributions
    ELSE CountMessages(CountMessage(contributions, Head(messages)),
                       Tail(messages))

\* EmptyDict with an entry for "unknown" from the start
EmptyDict_Unknown == [n \in {"unknown"} |-> 0]

\* the empty dict
EmptyDict == [n \in {} |-> 0]

_analyze_agent_contributions(messages) == CountMessages(EmptyDict, messages)

-----------------------------------------------------------------------------
(* ResearchWorkflow: construction, reset and conduct_research *)

Roles == <<"user_proxy", "research_agent", "synthesis_agent", "critique_agent">>

\* the round limit given to autogen.GroupChat in __init__
MaxRound == 20

\* bounds of the model: no call starts once the clock shows MaxClock, and the
\* conversation driver stops appending when the list holds MaxTranscript
MaxClock == 3

MaxTranscript == 6

\* the replies of a run that the model draws from all of Replies
MaxVaried == 3

Topics == {"AI in healthcare", "Solar power"}

Instructions == {""}

\* str(e) of the exceptions the conversation can raise
Errors == {"", "Connection error."}

\* the f-string of lines 75-87
InitialMessage(research_topic, additional_instructions) ==
    "Please conduct comprehensive research on the following topic:\n\n"
    \o "**Topic**: " \o research_topic \o "\n\n"
    \o additional_instructions \o "\n\n"
    \o "**Research Process**:\n"
    \o "1. The Research Agent should search for relevant information from credible sources\n"
    \o "2. The Synthesis Agent should aggregate and synthesize the findings\n"
    \o "3. The Critique Agent should fact-check and evaluate the quality of the research\n"
    \o "4. Continue the discussion until a comprehensive research deliverable is ready\n\n"
    \o "Please begin the research process."

ResearchReply ==
    "Details are in https://example.com/a (see part two)"

SynthesisReply ==
    "Synthesis: the sources agree on the main trend, differ on its causes, and leave the long-term effects open to question.."

CritiqueReply == "Looks fine. TERMINATE"

\* the message of an agent that asks for a tool: its content is None, the
\* request is under function_call
FunctionCall(name) ==
    [content |-> None,
     function_call |-> [name |-> "search_web",
                        arguments |-> "{\"query\": \"solar power\"}"],
     name |-> name,
     role |-> "assistant"]

\* the replies the agents of the group chat may give in a round
Replies ==
    {[content |-> ResearchReply, name |-> "research_agent"],
     [content |-> SynthesisReply, name |-> "synthesis_agent"],
     [content |-> CritiqueReply, name |-> "critique_agent"],
     FunctionCall("research_agent")}

\* the reply of the rounds after the first MaxVaried replies
LateReply == [content |-> CritiqueReply, name |-> "critique_agent"]

NoFrame == [active |-> FALSE]

NoOutcome == [kind |-> "none"]

\* the list object behind self.group_chat.messages
Messages == heap[group_chat.messages]

\* __init__ (lines 25-49)
Init_workflow ==
    /\ heap = << << >> >>
    /\ group_chat = [agents |-> Roles, messages |-> 1, max_round |-> MaxRound]
    /\ manager = [groupchat |-> "group_chat", llm_config |-> "manager_llm_config"]
    /\ agents = Range(Roles)
    /\ research_history = << >>
    /\ pc = "idle"
    /\ frame = NoFrame
    /\ outcome = NoOutcome
    /\ now = 0
    /\ last_op = "init"

\* ClearMessages that leaves the list as it is
ClearMessages_Keep(h, gc) == h

\* ClearMessages that keeps the first message of the list
ClearMessages_KeepFirst(h, gc) ==
    [h EXCEPT ![gc.messages] = IF @ = << >> THEN @ ELSE <<Head(@)>>]

\* line 53: self.group_chat.messages.clear() empties the list in place
ClearMessages(h, gc) == [h EXCEPT ![gc.messages] = << >>]

\* lines 55-58: a new manager over the same group chat
NewManager == [groupchat |-> "group_chat", llm_config |-> "llm_config"]

\* reset(), called between two runs
reset ==
    /\ front_end.name = "script"
    /\ pc = "idle"
    /\ heap' = ClearMessages(heap, group_chat)
    /\ manager' = NewManager
    /\ last_op' = "reset"
    /\ UNCHANGED <<group_chat, agents, research_history, pc, frame, outcome, now>>

\* lines 72-94 up to the hand-over of the initial message to the driver;
\* h is the heap the call finds
EnterConductResearch(research_topic, additional_instructions, h, caller) ==
    /\ pc' = "chat"
    /\ frame' = [active |-> TRUE,
                 caller |-> caller,
                 research_topic |-> research_topic,
                 start_time |-> now,
                 initial_message |->
                     InitialMessage(research_topic, additional_instructions),
                 found |-> Len(h[group_chat.messages]),
                 rounds |-> 0]
    /\ now' = now + 1
    /\ last_op' = "conduct_research"

\* conduct_research called on the workflow as it stands (demo.py line 48, or
\* any caller of the class)
conduct_research ==
    /\ front_end.name = "script"
    /\ pc = "idle"
    /\ now < MaxClock
    /\ \E research_topic \in Topics, additional_instructions \in Instructions :
          EnterConductResearch(research_topic, additional_instructions,
                               heap, "direct")
    /\ UNCHANGED <<heap, group_chat, manager, agents, research_history, outcome>>

\* the submit handler of the dashboard (app.py lines 287-307): reset(), then
\* conduct_research; the form is shown once the key is validated, and without
\* a workflow reset() fails and the handler reports the error
dashboard_submit ==
    /\ front_end.name = "app"
    /\ api_key_validated
    /\ workflow # None
    /\ pc = "idle"
    /\ now < MaxClock
    /\ heap' = ClearMessages(heap, group_chat)
    /\ manager' = NewManager
    /\ \E research_topic \in Topics, additional_instructions \in Instructions :
          EnterConductResearch(research_topic, additional_instructions,
                               heap', "dashboard")
    /\ UNCHANGED <<group_chat, agents, research_history, outcome>>

\* the message the driver appends in a round: the initial message under the
\* name of user_proxy in the first round, a reply of an agent afterwards
RoundMessages(f) ==
    IF f.rounds = 0
    THEN {[content |-> f.initial_message, name |-> "user_proxy"]}
    ELSE IF f.rounds <= MaxVaried THEN Replies
    ELSE {LateReply}

\* one round of the group chat started by initiate_chat (line 91): the driver
\* appends the message of the round to group_chat.messages
chat_round ==
    /\ pc = "chat"
    /\ frame.rounds < group_chat.max_round
    /\ Len(Messages) < MaxTranscript
    /\ \E message \in RoundMessages(frame) :
          heap' = [heap EXCEPT ![group_chat.messages] = Append(@, message)]
    /\ frame' = [frame EXCEPT !.rounds = @ + 1]
    /\ now' = now + 1
    /\ last_op' = "chat_round"
    /\ UNCHANGED <<group_chat, manager, agents, research_history, pc, outcome>>

\* lines 104-111
ResearchRecord(f, duration, messages, research_results, contributions) ==
    [topic |-> f.research_topic,
     timestamp |-> f.start_time,
     duration_seconds |-> duration,
     messages |-> messages,
     results |-> research_results,
     agent_contributions |-> contributions]

\* line 97 and line 108: `messages` is the list of the group chat itself
RecordMessages(gc) == gc.messages

\* `research_result and not research_result.get('error')` (app.py line 310)
Succeeded(research_result) ==
    /\ DOMAIN research_result # {}
    /\ ~("error" \in DOMAIN research_result /\ research_result.error # "")

\* what the caller does with the result of conduct_research: the dashboard
\* keeps a result it takes for a success (app.py lines 309-316), the demo
\* prints it and ends (demo.py lines 53-85)
ReturnTo(caller, out) ==
    IF caller = "dashboard" /\ out.kind = "return" /\ Succeeded(out.value)
    THEN /\ current_research' = out.value
         /\ dashboard_history' = Append(dashboard_history, out.value)
         /\ UNCHANGED <<front_end, OPENAI_API_KEY, api_key_validated, workflow>>
    ELSE IF caller = "demo"
    THEN /\ front_end' = [front_end EXCEPT !.at = "exited"]
         /\ UNCHANGED <<OPENAI_API_KEY, api_key_validated, workflow,
                        dashboard_history, current_research>>
    ELSE UNCHANGED front_vars

\* the content of the message is text: the messages of the driver hold None
\* as content exactly when they hold a function call
IsText(message) == "function_call" \notin DOMAIN message

\* the first message on which the loop of lines 144-168 fails, 0 when there
\* is none: `"http" in content` and `len(content)` need a content that is text
FirstFailure(messages) ==
    LET failing == {i \in 1..Len(messages) :
                       /\ Get(messages[i], "name", "")
                              \in {"research_agent", "synthesis_agent",
                                   "critique_agent"}
                       /\ ~IsText(messages[i])}
    IN  IF failing = {} THEN 0 ELSE Min(failing)

\* str(e) of the TypeError of the message
TypeErrorText(message) ==
    IF Get(message, "name", "") = "research_agent"
    THEN "argument of type 'NoneType' is not iterable"
    ELSE "object of type 'NoneType' has no len()"

\* StoreRecord that puts the record in front
StoreRecord_Front(history, research_record) == <<research_record>> \o history

\* line 114: self.research_history.append(research_record)
StoreRecord(history, research_record) == Append(history, research_record)

\* lines 96-116: initiate_chat returned
chat_returns ==
    /\ pc = "chat"
    /\ frame.rounds >= 1
    /\ FirstFailure(Messages) = 0
    /\ \E research_results \in _extract_research_results(Messages) :
          LET research_record ==
                  ResearchRecord(frame, now - frame.start_time,
                                 RecordMessages(group_chat), research_results,
                                 _analyze_agent_contributions(Messages))
          IN  /\ research_history' = StoreRecord(research_history, research_record)
              /\ outcome' = [kind |-> "return", value |-> research_record]
    /\ ReturnTo(frame.caller, outcome')
    /\ pc' = "idle"
    /\ frame' = NoFrame
    /\ last_op' = "chat_returns"
    /\ UNCHANGED <<heap, group_chat, manager, agents, now>>

\* Caught without the except clause: the exception reaches the caller
Caught_Propagate(f, e) == [kind |-> "raise", exception |-> e]

\* lines 118-124: the except clause turns the exception into a record
Caught(f, e) ==
    [kind |-> "return",
     value |-> [error |-> e, topic |-> f.research_topic,
                timestamp |-> f.start_time]]

\* CaughtLate without the except clause: the TypeError reaches the caller
CaughtLate_Propagate(f, e) == [kind |-> "raise", exception |-> e]

\* lines 118-124, reached from line 100
CaughtLate(f, e) == Caught(f, e)

\* lines 96-100 and 118-124: initiate_chat returned and
\* _extract_research_results raised on a message of the transcript
extract_raises ==
    /\ pc = "chat"
    /\ frame.rounds >= 1
    /\ FirstFailure(Messages) # 0
    /\ outcome' = CaughtLate(frame,
                             TypeErrorText(Messages[FirstFailure(Messages)]))
    /\ ReturnTo(frame.caller, outcome')
    /\ pc' = "idle"
    /\ frame' = NoFrame
    /\ last_op' = "extract_raises"
    /\ UNCHANGED <<heap, group_chat, manager, agents, research_history, now>>

\* lines 89-94 and 118-124: initiate_chat raised an exception
chat_raises ==
    /\ pc = "chat"
    /\ \E e \in Errors : outcome' = Caught(frame, e)
    /\ ReturnTo(frame.caller, outcome')
    /\ pc' = "idle"
    /\ frame' = NoFrame
    /\ last_op' = "chat_raises"
    /\ UNCHANGED <<heap, group_chat, manager, agents, research_history, now>>

(* Config (src/config.py) and the two front ends *)

\* Config.validate_config (lines 39-44)
validate_config(key) == IF key = "" THEN FALSE ELSE TRUE

\* Config.get_llm_config (lines 24-37)
get_llm_config(key) ==
    IF key = ""
    THEN [kind |-> "raise", exception |-> "ValueError"]
    ELSE [kind |-> "return",
          value |-> [config_list |-> <<[model |-> "gpt-4o-mini",
                                        api_key |-> key]>>]]

\* what the user types into the key field of the sidebar, and what a .env
\* file holds
ApiKeys == {"", "sk-test"}

\* the dashboard before its first run of the script (config.py line 11,
\* app.py lines 174-181)
Dashboard ==
    /\ front_end = FrontEnd("app", "")
    /\ OPENAI_API_KEY = ""
    /\ api_key_validated = FALSE
    /\ workflow = None
    /\ dashboard_history = << >>
    /\ current_research = None

\* the demo before main() (config.py line 11)
Demo ==
    /\ \E env \in ApiKeys : front_end = FrontEnd("demo", env)
    /\ OPENAI_API_KEY = ""
    /\ api_key_validated = FALSE
    /\ workflow = None
    /\ dashboard_history = << >>
    /\ current_research = None

\* values of "Max Conversation Rounds" the user selects: the least, the
\* default
SidebarRounds == {5, DefaultRounds}

\* one run of the dashboard script without a submission (app.py lines
\* 192-260): the sidebar takes the key, the main area creates the workflow;
\* built tells whether ResearchWorkflow(llm_config) returns or raises
app_rerun ==
    /\ front_end.name = "app"
    /\ pc = "idle"
    /\ \E api_key \in ApiKeys, built \in BOOLEAN, max_rounds \in SidebarRounds :
          LET key == IF api_key # "" THEN api_key ELSE OPENAI_API_KEY
              validated ==
                  \/ api_key_validated
                  \/ api_key # "" /\ validate_config(key)
          IN  /\ OPENAI_API_KEY' = key
              /\ api_key_validated' = validated
              /\ workflow' =
                     IF validated /\ workflow = None
                            /\ get_llm_config(key).kind = "return" /\ built
                     THEN Constructed
                     ELSE workflow
              /\ front_end' = [front_end EXCEPT !.reported = ~validated,
                                                !.max_rounds = max_rounds]
    /\ last_op' = "app_rerun"
    /\ UNCHANGED <<heap, group_chat, manager, agents, research_history, pc,
                   frame, outcome, now>>
    /\ UNCHANGED <<dashboard_history, current_research>>

\* main() of the demo (demo.py lines 16-51): without a valid configuration
\* it reports and returns, else it creates the workflow and starts the run
demo_main ==
    /\ front_end.name = "demo"
    /\ front_end.at = "running"
    /\ workflow = None
    /\ pc = "idle"
    /\ IF ~validate_config(OPENAI_API_KEY)
       THEN /\ front_end' = [front_end EXCEPT !.at = "exited",
                                              !.reported = TRUE]
            /\ last_op' = "demo_main"
            /\ UNCHANGED <<workflow, heap, group_chat, manager, agents,
                           research_history, pc, frame, outcome, now>>
       ELSE \E built \in BOOLEAN :
               IF get_llm_config(OPENAI_API_KEY).kind = "return" /\ built
               THEN /\ workflow' = Constructed
                    /\ \E research_topic \in Topics :
                          EnterConductResearch(
                              research_topic,
                              "Focus on recent developments and provide specific examples.",
                              heap, "demo")
                    /\ UNCHANGED <<front_end, heap, group_chat, manager,
                                   agents, research_history, outcome>>
               ELSE /\ front_end' = [front_end EXCEPT !.at = "exited"]
                    /\ last_op' = "demo_main"
                    /\ UNCHANGED <<workflow, heap, group_chat, manager,
                                   agents, research_history, pc, frame,
                                   outcome, now>>
    /\ UNCHANGED <<OPENAI_API_KEY, api_key_validated, dashboard_history,
                   current_research>>

\* the variables the steps of the workflow leave alone
aside_vars == <<function_vars, report_vars, search_vars>>

Init ==
    /\ Init_workflow
    /\ ScriptWithWorkflow \/ Dashboard \/ Demo
    /\ IdleFunctions
    /\ IdleReports
    /\ IdleSearch

Next ==
    \/ reset /\ UNCHANGED <<aside_vars, front_vars>>
    \/ conduct_research /\ UNCHANGED <<aside_vars, front_vars>>
    \/ dashboard_submit /\ UNCHANGED <<aside_vars, front_vars>>
    \/ chat_round /\ UNCHANGED <<aside_vars, front_vars>>
    \/ chat_returns /\ UNCHANGED aside_vars
    \/ chat_raises /\ UNCHANGED aside_vars
    \/ extract_raises /\ UNCHANGED aside_vars
    \/ app_rerun /\ UNCHANGED aside_vars
    \/ demo_main /\ UNCHANGED aside_vars

Spec == Init /\ [][Next]_vars

TypeOK ==
    /\ pc \in {"idle", "chat"}
    /\ Len(heap) = 1
    /\ now \in 0..(MaxClock + MaxTranscript)

-----------------------------------------------------------------------------
(* The extractor and the analyzer applied to arbitrary transcripts *)

\* 64 characters, the same URL twice
ExampleResearch ==
    "Found at https://example.com/a and https://example.com/a - short"

\* 39 characters; the first match of the pattern takes in the comma
ShortWithUrl == "see http://b.org/x, then http://b.org/x"

\* 50 characters, the word http but no URL
FiftyChars == "No link here, only the word http and a hyphen - ok"

\* 51 characters
FiftyOneChars == ResearchReply

\* 120 characters
ExampleSynthesis == SynthesisReply

\* 101 characters, with a URL
SecondSynthesis ==
    "Summary draft two: evidence is mixed, see http://s.io/1 for the table of results and open questions.."

\* 100 characters
HundredChars ==
    "A short synthesis note that stays at the limit of one hundred characters and so does not qualify...."

\* 103 characters, with a URL
LongCritique ==
    "Critique: two claims lack a citation and http://c.net/z is a blog, so the conclusion is only tentative."

\* the messages the transcripts are made of
SampleMessages ==
    {[content |-> ExampleResearch, name |-> "research_agent"],
     [content |-> ShortWithUrl, name |-> "research_agent"],
     [content |-> FiftyChars, name |-> "research_agent"],
     [content |-> FiftyOneChars, name |-> "research_agent"],
     [name |-> "research_agent"],
     [content |-> ExampleSynthesis, name |-> "synthesis_agent"],
     [content |-> SecondSynthesis, name |-> "synthesis_agent"],
     [content |-> HundredChars, name |-> "synthesis_agent"],
     [content |-> LongCritique, name |-> "critique_agent"],
     [content |-> ShortWithUrl, name |-> "critique_agent"],
     [content |-> SecondSynthesis, name |-> "user_proxy"],
     [content |-> LongCritique]}

BoundedSeq(S, n) == UNION {[1..k -> S] : k \in 0..n}

InitFunctions ==
    /\ Init_workflow
    /\ ScriptWithWorkflow
    /\ IdleReports
    /\ IdleSearch
    /\ transcript \in BoundedSeq(SampleMessages, MaxLen)
    /\ extractor_out = [done |-> FALSE]
    /\ analyzer_out = [done |-> FALSE]

\* a call of _extract_research_results(transcript)
call_extract_research_results ==
    /\ ~extractor_out.done
    /\ \E results \in _extract_research_results(transcript) :
          extractor_out' = [done |-> TRUE, value |-> results]
    /\ UNCHANGED <<transcript, analyzer_out>>

\* a call of _analyze_agent_contributions(transcript)
call_analyze_agent_contributions ==
    /\ ~analyzer_out.done
    /\ analyzer_out' =
          [done |-> TRUE, value |-> _analyze_agent_contributions(transcript)]
    /\ UNCHANGED <<transcript, extractor_out>>

NextFunctions ==
    \/ call_extract_research_results
          /\ UNCHANGED <<workflow_vars, report_vars, search_vars, front_vars>>
    \/ call_analyze_agent_contributions
          /\ UNCHANGED <<workflow_vars, report_vars, search_vars, front_vars>>

SpecFunctions == InitFunctions /\ [][NextFunctions]_vars

-----------------------------------------------------------------------------
(* Properties of the extractor, checked under SpecFunctions *)

NameOf(message) == Get(message, "name", "")

ContentOf(message) == Get(message, "content", "")

IsResearch(message) == NameOf(message) = "research_agent"

IsLongResearch(message) == IsResearch(message) /\ Len(ContentOf(message)) > 50

ResearchIndices(t) == {i \in 1..Len(t) : IsResearch(t[i])}

\* C1: the findings are exactly the research_agent messages with more than 50
\* characters of content, in transcript order, each as {content, agent}; so
\* there are no more findings than research_agent messages and no finding has
\* 50 characters or fewer.
C1_FindingsAreLongResearchMessages ==
    extractor_out.done =>
        LET findings == extractor_out.value.findings
            long == SelectSeq(transcript, IsLongResearch)
        IN  /\ findings = [i \in 1..Len(long) |->
                             [content |-> long[i].content,
                              agent |-> "research_agent"]]
            /\ Len(findings) <= Cardinality(ResearchIndices(transcript))
            /\ \A i \in 1..Len(findings) : Len(findings[i].content) > 50

\* two findings out of three research_agent messages, one of them short
C1_Witness ==
    /\ extractor_out.done
    /\ Cardinality(ResearchIndices(transcript)) = 3
    /\ Len(extractor_out.value.findings) = 2
    /\ extractor_out.value.findings[1] # extractor_out.value.findings[2]

\* the URLs the pattern finds in the research_agent messages of a transcript
ResearchUrls(t) ==
    UNION {Range(re_findall(ContentOf(t[i]))) : i \in ResearchIndices(t)}

NoDuplicates(seq) ==
    \A i, j \in 1..Len(seq) : seq[i] = seq[j] => i = j

\* C2: sources holds no URL twice, and holds exactly the URLs found in the
\* content of research_agent messages.
C2_SourcesAreDistinctResearchUrls ==
    extractor_out.done =>
        /\ NoDuplicates(extractor_out.value.sources)
        /\ Range(extractor_out.value.sources) = ResearchUrls(transcript)

\* a research message that repeats a URL, next to a synthesis message and a
\* user_proxy message that carry a URL of their own
C2_Witness ==
    /\ extractor_out.done
    /\ \E i \in 1..Len(transcript) :
          /\ IsResearch(transcript[i])
          /\ ~NoDuplicates(re_findall(ContentOf(transcript[i])))
    /\ \E i \in 1..Len(transcript) :
          /\ NameOf(transcript[i]) = "synthesis_agent"
          /\ re_findall(ContentOf(transcript[i])) # << >>
    /\ \E i \in 1..Len(transcript) :
          /\ NameOf(transcript[i]) = "user_proxy"
          /\ re_findall(ContentOf(transcript[i])) # << >>
    /\ Len(extractor_out.value.sources) = 1

Qualifying(t, role) ==
    {i \in 1..Len(t) : NameOf(t[i]) = role /\ Len(ContentOf(t[i])) > 100}

Last(S) == CHOOSE i \in S : \A j \in S : j <= i

LastQualifying(t, role) ==
    IF Qualifying(t, role) = {} THEN ""
    ELSE ContentOf(t[Last(Qualifying(t, role))])

\* C3: synthesis (critique) is the content of the last synthesis_agent
\* (critique_agent) message with more than 100 characters, and the empty
\* string when there is none.
C3_LastQualifyingMessageWins ==
    extractor_out.done =>
        /\ extractor_out.value.synthesis =
              LastQualifying(transcript, "synthesis_agent")
        /\ extractor_out.value.critique =
              LastQualifying(transcript, "critique_agent")

\* two qualifying synthesis messages, then a short one
C3_Witness ==
    /\ extractor_out.done
    /\ Len(transcript) = 3
    /\ Qualifying(transcript, "synthesis_agent") = {1, 2}
    /\ ContentOf(transcript[1]) # ContentOf(transcript[2])
    /\ NameOf(transcript[3]) = "synthesis_agent"
    /\ extractor_out.value.synthesis = ContentOf(transcript[2])

ExampleTranscript ==
    <<[content |-> ExampleResearch, name |-> "research_agent"],
      [content |-> ExampleSynthesis, name |-> "synthesis_agent"]>>

\* C4, as the example is written: one source, no finding, the synthesis text.
C4_ExampleAsWritten ==
    (extractor_out.done /\ transcript = ExampleTranscript) =>
        /\ extractor_out.value.sources = <<"https://example.com/a">>
        /\ extractor_out.value.findings = << >>
        /\ extractor_out.value.synthesis = ExampleSynthesis

\* C4: the example transcript yields the single source https://example.com/a,
\* the synthesis text, and one finding: the research message, whose 64
\* characters are more than 50.
C4_ExampleWithFinding ==
    (extractor_out.done /\ transcript = ExampleTranscript) =>
        /\ extractor_out.value.sources = <<"https://example.com/a">>
        /\ extractor_out.value.findings =
              <<[content |-> ExampleResearch, agent |-> "research_agent"]>>
        /\ Len(ExampleResearch) = 64
        /\ Len(ExampleSynthesis) = 120
        /\ extractor_out.value.synthesis = ExampleSynthesis

C4_Witness ==
    /\ extractor_out.done
    /\ transcript = ExampleTranscript

\* C5: a research_agent message of 50 characters or fewer adds no finding,
\* and the URLs of a research_agent message reach sources whatever its length.
C5_ShortResearchStillHarvested ==
    extractor_out.done =>
        \A i \in ResearchIndices(transcript) :
            LET content == ContentOf(transcript[i])
            IN  /\ Range(re_findall(content))
                        \subseteq Range(extractor_out.value.sources)
                /\ Len(content) <= 50 =>
                      \A k \in 1..Len(extractor_out.value.findings) :
                          extractor_out.value.findings[k].content # content

\* only short research messages, with URLs: sources but no findings
C5_Witness ==
    /\ extractor_out.done
    /\ transcript # << >>
    /\ \A i \in 1..Len(transcript) :
          /\ IsResearch(transcript[i])
          /\ Len(ContentOf(transcript[i])) <= 50
    /\ extractor_out.value.findings = << >>
    /\ Len(extractor_out.value.sources) = 2

-----------------------------------------------------------------------------
(* Properties of the workflow, checked under Spec *)

\* a record as a reader of research_history sees it: with the messages its
\* `messages` entry refers to
Seen(record, h) == [record EXCEPT !.messages = h[record.messages]]

RECURSIVE SumOver(_, _)
SumOver(f, S) ==
    IF S = {} THEN 0
    ELSE LET n == CHOOSE n \in S : TRUE
         IN  f[n] + SumOver(f, S \ {n})

\* the sum of the values of a dict of counts
Total(counts) == SumOver(counts, DOMAIN counts)

\* C6: when the conversation raises, conduct_research returns (it does not
\* raise) a record with exactly the fields error, topic and timestamp, and the
\* call is over: nothing is appended, stored or started again; a successful
\* call returns a record without an error field.
C6_FailureReturnsDegradedRecord ==
    /\ [](last_op = "chat_raises" =>
            /\ outcome.kind = "return"
            /\ DOMAIN outcome.value = {"error", "topic", "timestamp"}
            /\ pc = "idle")
    /\ [](last_op = "chat_returns" =>
            /\ outcome.kind = "return"
            /\ "error" \notin DOMAIN outcome.value)
    /\ [][last_op' = "chat_raises" =>
            /\ outcome'.value.topic = frame.research_topic
            /\ outcome'.value.timestamp = frame.start_time
            /\ heap' = heap
            /\ research_history' = research_history]_vars

\* a run that fails after two rounds with an exception whose text is empty
C6_Witness ==
    /\ last_op = "chat_raises"
    /\ outcome.kind = "return"
    /\ outcome.value.error = ""
    /\ Len(Messages) = 2

\* C7: a record of research_history never changes once it is appended, its
\* messages included, and is never removed.
C7_RecordsNeverChange ==
    [][/\ Len(research_history') >= Len(research_history)
       /\ \A i \in 1..Len(research_history) :
             Seen(research_history'[i], heap') = Seen(research_history[i], heap)
      ]_vars

\* C8: for every record of research_history, agent_contributions sums to the
\* number of messages of the record.
C8_ContributionsSumToTranscript ==
    \A i \in 1..Len(research_history) :
        Total(research_history[i].agent_contributions)
            = Len(Seen(research_history[i], heap).messages)

\* C9, as stated: whenever conduct_research hands the initial message to the
\* driver, the shared transcript is empty.
C9_EveryRunStartsEmpty ==
    (pc = "chat" /\ frame.rounds = 0) => Messages = << >>

\* the run was started by the dashboard, or is the first run of the workflow
StartsClean(f) == f.caller = "dashboard" \/ f.start_time = 0

\* C9: a run started by the submit handler of the dashboard (which calls
\* reset() first), or as the first call on a new workflow, finds the shared
\* transcript empty at the hand-over, and the record it produces holds, when it
\* is created, the messages of this run only.
C9_DashboardRunStartsEmpty ==
    /\ []((pc = "chat" /\ frame.rounds = 0 /\ StartsClean(frame)) =>
            Messages = << >>)
    /\ [][(pc = "chat" /\ StartsClean(frame) /\ last_op' = "chat_returns") =>
            LET messages == Seen(outcome'.value, heap').messages
            IN  /\ Len(messages) = frame.rounds
                /\ messages[1] = [content |-> frame.initial_message,
                                  name |-> "user_proxy"]]_vars

\* the dashboard starts a run after an earlier run that left a record
C9_Witness ==
    /\ pc = "chat"
    /\ frame.caller = "dashboard"
    /\ frame.rounds = 0
    /\ research_history # << >>
    /\ Messages = << >>

\* C10: after reset() the shared transcript is empty, and so it is when a
\* conduct_research call follows directly; reset() leaves research_history,
\* the agents and the group chat (its list and its round limit) as they were.
C10_ResetClearsTranscriptOnly ==
    /\ [](last_op = "reset" => Messages = << >>)
    /\ [][(last_op = "reset" /\ last_op' = "conduct_research") =>
            (heap'[group_chat'.messages] = << >> /\ frame'.found = 0)]_vars
    /\ [][last_op' = "reset" =>
            /\ research_history' = research_history
            /\ agents' = agents
            /\ group_chat' = group_chat
            /\ manager'.groupchat = manager.groupchat]_vars

\* reset() after a run that completed
C10_Witness ==
    /\ last_op = "reset"
    /\ research_history # << >>
    /\ Messages = << >>

-----------------------------------------------------------------------------
(* get_research_summary and export_research_report *)

\* largest store the reports are asked from
MaxStore == 2

Abs(n) == IF n < 0 THEN -n ELSE n

\* list[index] of Python: negative indices count from the end, an index
\* outside -len..len-1 raises IndexError
ListItem(list, index) ==
    IF 0 <= index /\ index < Len(list)
    THEN [kind |-> "return", value |-> list[index + 1]]
    ELSE IF index < 0 /\ -index <= Len(list)
    THEN [kind |-> "return", value |-> list[Len(list) + index + 1]]
    ELSE [kind |-> "raise", exception |-> "IndexError"]

\* NotFound without the test of the empty store
NotFound_NoEmptyTest(history, index) == Abs(index) > Len(history)

\* lines 203 and 229: `not self.research_history or abs(index) > len(...)`
NotFound(history, index) ==
    history = << >> \/ Abs(index) > Len(history)

Digit(d) == SubSeq("0123456789", d + 1, d + 1)

RECURSIVE Str(_)
\* str() of a natural number, as the f-strings format it
Str(n) == IF n < 10 THEN Digit(n) ELSE Str(n \div 10) \o Digit(n % 10)

\* f"{duration:.1f}" of a duration of whole seconds
OneDecimal(duration) == Str(duration) \o ".0"

RECURSIVE FindingsText(_, _)
\* lines 249-250: the findings from the i-th on, numbered from 1
FindingsText(findings, i) ==
    IF i > Len(findings) THEN ""
    ELSE "### Finding " \o Str(i) \o "\n\n" \o findings[i].content \o "\n\n"
             \o FindingsText(findings, i + 1)

RECURSIVE SourceLines(_)
\* lines 254-255
SourceLines(sources) ==
    IF sources = << >> THEN ""
    ELSE "- " \o Head(sources) \o "\n" \o SourceLines(Tail(sources))

\* lines 252-255
SourcesText(sources) ==
    IF sources # << >> THEN "## Sources\n\n" \o SourceLines(sources) ELSE ""

\* lines 257-258
CritiqueText(critique) ==
    IF critique # ""
    THEN "\n## Critical Analysis\n\n" \o critique \o "\n"
    ELSE ""

\* SummaryText that prints the synthesis as it is
SummaryText_Plain(synthesis) == synthesis

\* line 243
SummaryText(synthesis) ==
    IF synthesis # "" THEN synthesis ELSE "No synthesis available."

\* line 260
MethodologyText(contributions) ==
    "\n## Methodology\n\nThis research was conducted using a multi-agent system with "
    \o Str(Cardinality(DOMAIN contributions)) \o " participating agents.\n"

\* lines 233-262: the report of one record
Report(research) ==
    "# Research Report\n\n"
    \o "**Topic**: " \o research.topic \o "\n"
    \o "**Date**: " \o Str(research.timestamp) \o "\n"
    \o "**Duration**: " \o OneDecimal(research.duration_seconds) \o " seconds\n\n"
    \o "## Executive Summary\n\n"
    \o SummaryText(research.results.synthesis) \o "\n\n"
    \o "## Detailed Findings\n\n"
    \o FindingsText(research.results.findings, 1)
    \o SourcesText(research.results.sources)
    \o CritiqueText(research.results.critique)
    \o MethodologyText(research.agent_contributions)

\* export_research_report(index) on a store (lines 229-262)
export_research_report(history, index) ==
    IF NotFound(history, index)
    THEN [kind |-> "return", value |-> "No research found."]
    ELSE LET research == ListItem(history, index)
         IN  IF research.kind = "raise" THEN research
             ELSE [kind |-> "return", value |-> Report(research.value)]

\* lines 208-217
Summary(research, h) ==
    [topic |-> research.topic,
     timestamp |-> research.timestamp,
     duration_seconds |-> research.duration_seconds,
     total_messages |-> Len(h[research.messages]),
     agent_contributions |-> research.agent_contributions,
     sources_count |-> Len(research.results.sources),
     has_synthesis |-> research.results.synthesis # "",
     has_critique |-> research.results.critique # ""]

\* get_research_summary(index) on a store (lines 203-217)
get_research_summary(history, h, index) ==
    IF NotFound(history, index)
    THEN [kind |-> "return", value |-> None]
    ELSE LET research == ListItem(history, index)
         IN  IF research.kind = "raise" THEN research
             ELSE [kind |-> "return", value |-> Summary(research.value, h)]

\* the indices asked for: every index of the largest store, and one beyond
\* at either end
Indices == (-(MaxStore + 1))..(MaxStore + 1)

SampleTopic == "AI in healthcare"

SamplePrompt ==
    [content |-> InitialMessage(SampleTopic, ""), name |-> "user_proxy"]

\* the transcripts of the runs the stores are made of: each starts with the
\* initial message
SampleRuns ==
    {<<SamplePrompt>>,
     <<SamplePrompt,
       [content |-> ExampleResearch, name |-> "research_agent"],
       [content |-> FiftyOneChars, name |-> "research_agent"],
       [content |-> ExampleSynthesis, name |-> "synthesis_agent"],
       [content |-> LongCritique, name |-> "critique_agent"]>>,
     <<SamplePrompt,
       [content |-> ShortWithUrl, name |-> "research_agent"],
       [content |-> LongCritique, name |-> "critique_agent"]>>,
     <<SamplePrompt,
       [content |-> FiftyChars, name |-> "research_agent"],
       [content |-> ExampleSynthesis, name |-> "synthesis_agent"]>>}

RECURSIVE StartOf(_, _)
\* the clock when the i-th of the runs starts: a call reads the clock once
\* and every round takes one tick
StartOf(runs, i) ==
    IF i = 1 THEN 0
    ELSE StartOf(runs, i - 1) + 1 + Len(runs[i - 1])

\* the records conduct_research may store for the i-th of the runs, each run
\* on a transcript that reset() has emptied
RecordsOf(runs, i) ==
    {[topic |-> SampleTopic,
      timestamp |-> StartOf(runs, i),
      duration_seconds |-> 1 + Len(runs[i]),
      messages |-> 1,
      results |-> research_results,
      agent_contributions |-> _analyze_agent_contributions(runs[i])] :
        research_results \in _extract_research_results(runs[i])}

\* the stores a sequence of completed runs may leave
StoresOf(runs) ==
    {store \in [1..Len(runs) -> UNION {RecordsOf(runs, i) : i \in 1..Len(runs)}] :
        \A i \in 1..Len(runs) : store[i] \in RecordsOf(runs, i)}

\* the workflow after a sequence of completed runs
InitReports ==
    /\ \E runs \in BoundedSeq(SampleRuns, MaxStore) :
          /\ heap = <<IF runs = << >> THEN << >> ELSE runs[Len(runs)]>>
          /\ research_history \in StoresOf(runs)
          /\ now = StartOf(runs, Len(runs) + 1)
          /\ manager = IF Len(runs) > 1 THEN NewManager
                       ELSE [groupchat |-> "group_chat",
                             llm_config |-> "manager_llm_config"]
          /\ last_op = IF runs = << >> THEN "init" ELSE "chat_returns"
    /\ outcome = IF research_history = << >> THEN NoOutcome
                 ELSE [kind |-> "return",
                       value |-> research_history[Len(research_history)]]
    /\ group_chat = [agents |-> Roles, messages |-> 1, max_round |-> MaxRound]
    /\ agents = Range(Roles)
    /\ pc = "idle"
    /\ frame = NoFrame
    /\ ScriptWithWorkflow
    /\ IdleFunctions
    /\ IdleSearch
    /\ IdleReports

\* a call of export_research_report(index)
call_export_research_report ==
    /\ ~report_out.done
    /\ \E index \in Indices :
          report_out' = [done |-> TRUE, index |-> index,
                         result |-> export_research_report(research_history,
                                                           index)]
    /\ UNCHANGED summary_out

\* a call of get_research_summary(index)
call_get_research_summary ==
    /\ ~summary_out.done
    /\ \E index \in Indices :
          summary_out' = [done |-> TRUE, index |-> index,
                          result |-> get_research_summary(research_history,
                                                          heap, index)]
    /\ UNCHANGED report_out

NextReports ==
    \/ call_export_research_report
          /\ UNCHANGED <<workflow_vars, function_vars, search_vars, front_vars>>
    \/ call_get_research_summary
          /\ UNCHANGED <<workflow_vars, function_vars, search_vars, front_vars>>

SpecReports == InitReports /\ [][NextReports]_vars

-----------------------------------------------------------------------------
(* Properties of the reports, checked under SpecReports *)

\* the index names no record of the store
OutOfRange(index) ==
    index >= Len(research_history) \/ index < -Len(research_history)

\* C11: for an index that names no record, export_research_report returns
\* "No research found." and get_research_summary returns None; neither raises.
C11_OutOfRangeIsNotFound ==
    /\ (report_out.done /\ OutOfRange(report_out.index)) =>
          report_out.result = [kind |-> "return", value |-> "No research found."]
    /\ (summary_out.done /\ OutOfRange(summary_out.index)) =>
          summary_out.result = [kind |-> "return", value |-> None]

\* C12: on an empty store export_research_report returns "No research found."
\* for every index.
C12_EmptyStoreIsNotFound ==
    (report_out.done /\ research_history = << >>) =>
        report_out.result = [kind |-> "return", value |-> "No research found."]

\* the report of index 0 was asked from the empty store
C12_Witness ==
    /\ report_out.done
    /\ research_history = << >>
    /\ report_out.index = 0

\* first position of p in s, 0 when p does not occur
IndexOf(s, p) ==
    LET at == {i \in 1..Len(s) : OccursAt(s, i, p)}
    IN  IF at = {} THEN 0 ELSE Min(at)

\* the headings of a report, in the order the sections are to appear
Headings ==
    <<"# Research Report\n\n**Topic**: ", "\n**Date**: ", "\n**Duration**: ",
      "\n\n## Executive Summary\n\n", "\n\n## Detailed Findings\n\n",
      "## Sources\n\n", "\n## Critical Analysis\n\n", "\n## Methodology\n\n">>

\* the headings that occur in the text occur in the order of Headings
InOrder(text) ==
    \A i, j \in 1..Len(Headings) :
        (i < j /\ Contains(text, Headings[i]) /\ Contains(text, Headings[j]))
            => IndexOf(text, Headings[i]) < IndexOf(text, Headings[j])

\* the record an index in range names, counted from the end when negative
Named(index) ==
    IF index >= 0 THEN research_history[index + 1]
    ELSE research_history[Len(research_history) + index + 1]

FindingHeading(k) == "### Finding " \o Str(k) \o "\n\n"

\* C13: for an index in range the report is that of the record the index
\* names; its sections come in the fixed order; the placeholder stands for an
\* empty synthesis and only for it; Sources and Critical Analysis appear
\* exactly when the record has sources, a critique; the findings are numbered
\* 1..n in stored order; the Methodology line gives the number of speakers
\* counted in the record.
C13_ReportOfNamedRecord ==
    (report_out.done /\ ~OutOfRange(report_out.index)) =>
        LET research == Named(report_out.index)
            results == research.results
            text == report_out.result.value
            n == Len(results.findings)
        IN  /\ report_out.result.kind = "return"
            /\ IndexOf(text, Headings[1] \o research.topic \o Headings[2]
                               \o Str(research.timestamp) \o Headings[3]) = 1
            /\ \A i \in {1, 2, 3, 4, 5, 8} : Contains(text, Headings[i])
            /\ InOrder(text)
            /\ Contains(text, Headings[4] \o "No synthesis available."
                                \o Headings[5])
                  <=> results.synthesis = ""
            /\ Contains(text, Headings[4] \o results.synthesis \o Headings[5])
                  <=> results.synthesis # ""
            /\ Contains(text, Headings[6]) <=> results.sources # << >>
            /\ \A k \in 1..Len(results.sources) :
                  Contains(text, "- " \o results.sources[k] \o "\n")
            /\ Contains(text, Headings[7]) <=> results.critique # ""
            /\ Contains(text, Headings[7] \o results.critique \o "\n")
                  <=> results.critique # ""
            /\ \A k \in 1..n :
                  Contains(text, FindingHeading(k)
                                   \o results.findings[k].content \o "\n\n")
            /\ \A k, m \in 1..n :
                  k < m => IndexOf(text, FindingHeading(k))
                              < IndexOf(text, FindingHeading(m))
            /\ ~Contains(text, FindingHeading(n + 1))
            /\ Contains(text, "with "
                  \o Str(Cardinality(DOMAIN research.agent_contributions))
                  \o " participating agents.\n")

\* the report of the older of two records, asked for with a negative index:
\* two findings, a source and a critique
C13_Witness ==
    /\ report_out.done
    /\ Len(research_history) = 2
    /\ report_out.index = -2
    /\ Len(research_history[1].results.findings) = 2
    /\ research_history[1].results.sources # << >>
    /\ research_history[1].results.critique # ""
    /\ research_history[2].results.synthesis = ""
    /\ report_out.result.kind = "return"

-----------------------------------------------------------------------------
(* Properties of the analyzer and the extractor, checked under SpecFunctions *)

\* the name a message is counted under
Speaker(message) ==
    IF "name" \in DOMAIN message THEN message.name ELSE "unknown"

Speakers(t) == {Speaker(t[i]) : i \in 1..Len(t)}

\* C14: the mapping has exactly the speaker names of the transcript (messages
\* without a name under "unknown"), gives each the number of its messages, and
\* sums to the length of the transcript; two research_agent messages and a
\* synthesis_agent message give {research_agent: 2, synthesis_agent: 1}.
C14_ContributionsCountSpeakers ==
    analyzer_out.done =>
        LET counts == analyzer_out.value
        IN  /\ DOMAIN counts = Speakers(transcript)
            /\ \A n \in DOMAIN counts :
                  counts[n] = Cardinality({i \in 1..Len(transcript) :
                                              Speaker(transcript[i]) = n})
            /\ Total(counts) = Len(transcript)
            /\ [i \in 1..Len(transcript) |-> Speaker(transcript[i])]
                    = <<"research_agent", "research_agent", "synthesis_agent">>
                  => counts = [research_agent |-> 2, synthesis_agent |-> 1]

\* the example of the claim, analyzed
C14_Witness ==
    /\ analyzer_out.done
    /\ Len(transcript) = 3
    /\ NameOf(transcript[1]) = "research_agent"
    /\ NameOf(transcript[2]) = "research_agent"
    /\ NameOf(transcript[3]) = "synthesis_agent"
    /\ analyzer_out.value["research_agent"] = 2

\* C15: for the empty transcript the extractor returns empty findings, empty
\* sources, empty synthesis and empty critique, and the analyzer returns the
\* empty mapping.
C15_EmptyTranscriptGivesEmptyResults ==
    transcript = << >> =>
        /\ extractor_out.done =>
              /\ extractor_out.value.findings = << >>
              /\ extractor_out.value.sources = << >>
              /\ extractor_out.value.synthesis = ""
              /\ extractor_out.value.critique = ""
        /\ analyzer_out.done => DOMAIN analyzer_out.value = {}

\* both functions were called on the empty transcript
C15_Witness ==
    /\ transcript = << >>
    /\ extractor_out.done
    /\ analyzer_out.done

\* the message is one of a role the extractor has a branch for
IsInspected(message) ==
    NameOf(message) \in {"research_agent", "synthesis_agent", "critique_agent"}

\* C16: the messages of user_proxy, of any other name and of no name do not
\* count: the extractor returns for a transcript what it returns for the
\* transcript without them, so two transcripts that differ only in such
\* messages give the same findings, sources, synthesis and critique.
C16_OtherSpeakersDoNotCount ==
    extractor_out.done =>
        LET inspected == SelectSeq(transcript, IsInspected)
        IN  /\ extractor_out.value \in _extract_research_results(inspected)
            /\ _extract_research_results(transcript)
                  = _extract_research_results(inspected)

\* a research message between a user_proxy message and a message without a
\* name, both long and with a URL
C16_Witness ==
    /\ extractor_out.done
    /\ Len(transcript) = 3
    /\ NameOf(transcript[1]) = "user_proxy"
    /\ re_findall(ContentOf(transcript[1])) # << >>
    /\ IsLongResearch(transcript[2])
    /\ "name" \notin DOMAIN transcript[3]
    /\ Len(ContentOf(transcript[3])) > 100
    /\ Len(extractor_out.value.findings) = 1

-----------------------------------------------------------------------------
(* WebSearcher (src/web_search.py) and the two tools of the research agent *)

\* most items the provider returns in the model
MaxItems == 2

\* max_results of the WebSearcher of the research agent
max_results == 5

\* the limits of the fallback extraction
TextLimit == 5000

SummaryLimit == 500

Return(value) == [kind |-> "return", value |-> value]

Raise(exception) == [kind |-> "raise", exception |-> exception]

\* str.find, counted from 1: the first position of p in s, 0 when there is none
Find(s, p) ==
    LET at == {i \in 1..Len(s) : OccursAt(s, i, p)}
    IN  IF at = {} THEN 0 ELSE Min(at)

Max(S) == CHOOSE i \in S : \A j \in S : j <= i

RECURSIVE Split(_, _)
\* s.split(sep)
Split(s, sep) ==
    LET k == Find(s, sep)
    IN  IF k = 0 THEN <<s>>
        ELSE <<SubSeq(s, 1, k - 1)>>
                 \o Split(SubSeq(s, k + Len(sep), Len(s)), sep)

Whitespace == {" ", "\n", "\t", "\r"}

\* s.strip()
Strip(s) ==
    LET inked == {i \in 1..Len(s) : CharAt(s, i) \notin Whitespace}
    IN  IF inked = {} THEN "" ELSE SubSeq(s, Min(inked), Max(inked))

RECURSIVE Flatten(_)
Flatten(seqs) ==
    IF seqs = << >> THEN << >> ELSE Head(seqs) \o Flatten(Tail(seqs))

RECURSIVE Join(_, _)
\* sep.join(parts)
Join(sep, parts) ==
    IF parts = << >> THEN ""
    ELSE IF Len(parts) = 1 THEN parts[1]
    ELSE parts[1] \o sep \o Join(sep, Tail(parts))

NonEmpty(chunk) == chunk # ""

\* lines 111-113: the lines stripped, cut at double spaces, the phrases
\* stripped, the empty ones dropped, the rest joined by one space (a text
\* whose line breaks are "\n")
Normalize(text) ==
    LET raw == Split(text, "\n")
        lines == [i \in 1..Len(raw) |-> Strip(raw[i])]
        phrases == Flatten([i \in 1..Len(lines) |-> Split(lines[i], "  ")])
        chunks == [i \in 1..Len(phrases) |-> Strip(phrases[i])]
    IN  Join(" ", SelectSeq(chunks, NonEmpty))

\* s[:n]
Prefix(s, n) == SubSeq(s, 1, IF Len(s) < n THEN Len(s) ELSE n)

\* lines 43-48: the results made of the items of the provider, up to a
\* failure: an item that is no dict has no get()
RECURSIVE Collect(_, _)
Collect(results, items) ==
    IF items = << >> THEN Return(results)
    ELSE IF Head(items) = None
    THEN Raise("AttributeError")
    ELSE Collect(Append(results,
                        [title |-> Get(Head(items), "title", ""),
                         link |-> Get(Head(items), "link", ""),
                         snippet |-> Get(Head(items), "body", "")]),
                 Tail(items))

\* lines 40-51: the body of the try block of search
SearchBody(ddgs) ==
    IF ddgs.kind = "raise" THEN ddgs ELSE Collect(<< >>, ddgs.value)

\* Recover without the except clause
Recover_Propagate(body, default) == body

\* `except Exception`: an exception of the body gives the default
Recover(body, default) ==
    IF body.kind = "raise" THEN Return(default) ELSE body

\* WebSearcher.search (lines 39-55)
search(ddgs) == Recover(SearchBody(ddgs), << >>)

\* lines 102-119: the body of the try block of _fallback_extract
FallbackBody(page) ==
    IF page.kind = "raise" THEN page
    ELSE LET text == Normalize(page.value.text)
         IN  Return([title |-> page.value.title,
                     text |-> Prefix(text, TextLimit),
                     summary |-> Prefix(text, SummaryLimit)])

NoContent == [title |-> "", text |-> "", summary |-> ""]

\* _fallback_extract (lines 101-123)
_fallback_extract(page) == Recover(FallbackBody(page), NoContent)

\* lines 69-81: the body of the try block of extract_article_content
ArticleBody(article) ==
    IF article.kind = "raise" THEN article
    ELSE Return([title |-> article.value.title,
                 authors |-> article.value.authors,
                 publish_date |-> article.value.publish_date,
                 text |-> article.value.text,
                 summary |-> article.value.summary,
                 keywords |-> article.value.keywords])

\* extract_article_content (lines 67-89)
extract_article_content(web) ==
    IF web.NEWSPAPER_AVAILABLE
    THEN LET body == ArticleBody(web.article)
         IN  IF body.kind = "raise" THEN _fallback_extract(web.page) ELSE body
    ELSE _fallback_extract(web.page)

(* json.dumps(obj, indent=2) for the values the tools encode: strings of
   ASCII characters, None, lists and dicts *)

Escapes == [c \in {"\"", "\\", "\n", "\t", "\r"} |->
               CASE c = "\"" -> "\\\""
                 [] c = "\\" -> "\\\\"
                 [] c = "\n" -> "\\n"
                 [] c = "\t" -> "\\t"
                 [] c = "\r" -> "\\r"]

RECURSIVE Escape(_)
Escape(s) ==
    LET at == {i \in 1..Len(s) : CharAt(s, i) \in DOMAIN Escapes}
    IN  IF at = {} THEN s
        ELSE SubSeq(s, 1, Min(at) - 1) \o Escapes[CharAt(s, Min(at))]
                 \o Escape(SubSeq(s, Min(at) + 1, Len(s)))

JsonStr(s) == "\"" \o Escape(s) \o "\""

JsonNull == "null"

RECURSIVE Indent(_)
Indent(level) == IF level = 0 THEN "" ELSE "  " \o Indent(level - 1)

Indented(level, lines) == [i \in 1..Len(lines) |-> Indent(level) \o lines[i]]

\* a list whose encoded items are given, closed at the given level
JsonArray(items, level) ==
    IF items = << >> THEN "[]"
    ELSE "[\n" \o Join(",\n", Indented(level + 1, items))
             \o "\n" \o Indent(level) \o "]"

\* a dict whose keys and encoded values are given, closed at the given level
JsonObject(keys, values, level) ==
    IF keys = << >> THEN "{}"
    ELSE "{\n" \o Join(",\n", Indented(level + 1,
                           [i \in 1..Len(keys) |->
                               JsonStr(keys[i]) \o ": " \o values[i]]))
             \o "\n" \o Indent(level) \o "}"

JsonStrings(list, level) ==
    JsonArray([i \in 1..Len(list) |-> JsonStr(list[i])], level)

\* json.dumps(results, indent=2) of agents.py line 63
DumpsResults(results) ==
    JsonArray([i \in 1..Len(results) |->
                  JsonObject(<<"title", "link", "snippet">>,
                             <<JsonStr(results[i].title),
                               JsonStr(results[i].link),
                               JsonStr(results[i].snippet)>>, 1)], 0)

\* json.dumps(content, indent=2) of agents.py line 76
DumpsContent(content) ==
    IF "authors" \in DOMAIN content
    THEN JsonObject(
             <<"title", "authors", "publish_date", "text", "summary",
               "keywords">>,
             <<JsonStr(content.title),
               JsonStrings(content.authors, 1),
               IF content.publish_date = None THEN JsonNull
               ELSE JsonStr(content.publish_date.str),
               JsonStr(content.text),
               JsonStr(content.summary),
               JsonStrings(content.keywords, 1)>>, 0)
    ELSE JsonObject(<<"title", "text", "summary">>,
                    <<JsonStr(content.title), JsonStr(content.text),
                      JsonStr(content.summary)>>, 0)

\* ResearchAgent._search_web (agents.py lines 52-63)
_search_web(ddgs) ==
    LET results == search(ddgs)
    IN  IF results.kind = "raise" THEN results
        ELSE Return(DumpsResults(results.value))

\* ResearchAgent._extract_content (agents.py lines 65-76)
_extract_content(web) ==
    LET content == extract_article_content(web)
    IN  IF content.kind = "raise" THEN content
        ELSE Return(DumpsContent(content.value))

(* The tools called with every behaviour of the provider *)

RECURSIVE Repeat(_, _)
Repeat(s, n) ==
    IF n = 0 THEN ""
    ELSE LET half == Repeat(s, n \div 2)
         IN  half \o half \o (IF n % 2 = 1 THEN s ELSE "")

\* what the search provider yields for one result; None stands for a
\* failure while the results are handled
RawItems ==
    {[title |-> "Solar power", href |-> "https://example.org/solar",
      body |-> "Solar is growing."],
     [link |-> "https://example.org/wind", body |-> "Wind \"farms\"."],
     None}

\* ddgs.text(query, max_results=...): an exception, or at most max_results
\* results
SearchBehaviours ==
    {Raise("DuckDuckGoSearchException")}
        \cup {Return(items) :
                 items \in {l \in BoundedSeq(RawItems, MaxItems) :
                               Len(l) <= max_results}}

\* Article(url) downloaded, parsed and analysed: an exception or the article
ArticleBehaviours ==
    {Raise("ArticleException"),
     Return([title |-> "Solar power", authors |-> <<"Ann Lee">>,
             publish_date |-> None, text |-> "Solar is growing.",
             summary |-> "Solar grows.", keywords |-> <<"solar">>]),
     Return([title |-> "Wind", authors |-> << >>,
             publish_date |-> [py |-> "str", str |-> "2024-01-02 00:00:00"],
             text |-> "Wind farms.", summary |-> "", keywords |-> << >>])}

\* requests.get(url) and the parsed page: an exception, or the title of the
\* page ("" without one) and its visible text
PageBehaviours ==
    {Raise("ConnectionError"),
     Return([title |-> "", text |-> ""]),
     Return([title |-> "Solar", text |-> "  Solar \n\n power  is   growing \n"]),
     Return([title |-> "Words", text |-> Repeat("word ", 102)])}

InitSearch ==
    /\ Init_workflow
    /\ ScriptWithWorkflow
    /\ IdleFunctions
    /\ IdleReports
    /\ provider \in [NEWSPAPER_AVAILABLE : BOOLEAN]
    /\ search_out = [done |-> FALSE]
    /\ article_out = [done |-> FALSE]

\* the conversation calls search_web
call_search_web ==
    /\ \E ddgs \in SearchBehaviours :
          search_out' = [done |-> TRUE, ddgs |-> ddgs,
                         result |-> search(ddgs),
                         tool |-> _search_web(ddgs)]
    /\ UNCHANGED <<provider, article_out>>

\* the conversation calls extract_content
call_extract_content ==
    /\ \E article \in ArticleBehaviours, page \in PageBehaviours :
          LET web == [NEWSPAPER_AVAILABLE |-> provider.NEWSPAPER_AVAILABLE,
                      article |-> article, page |-> page]
          IN  article_out' = [done |-> TRUE, article |-> article,
                              page |-> page,
                              result |-> extract_article_content(web),
                              tool |-> _extract_content(web)]
    /\ UNCHANGED <<provider, search_out>>

NextSearch ==
    \/ call_search_web
           /\ UNCHANGED <<workflow_vars, function_vars, report_vars, front_vars>>
    \/ call_extract_content
           /\ UNCHANGED <<workflow_vars, function_vars, report_vars, front_vars>>

SpecSearch == InitSearch /\ [][NextSearch]_vars

-----------------------------------------------------------------------------
(* Claim C17 *)

ProviderFails(ddgs) ==
    \/ ddgs.kind = "raise"
    \/ \E i \in 1..Len(ddgs.value) : ddgs.value[i] = None

RichFails(out) ==
    ~provider.NEWSPAPER_AVAILABLE \/ out.article.kind = "raise"

IsFallback(content, page) ==
    /\ DOMAIN content = {"title", "text", "summary"}
    /\ content.title = page.title
    /\ Len(content.text) <= TextLimit
    /\ Len(content.summary) <= SummaryLimit
    /\ content.summary = Prefix(content.text, SummaryLimit)

\* C17: search returns normally, and returns the empty list whenever the
\* provider call or the handling of a result fails; extract_article_content
\* returns normally, with the fallback extraction of the page when the rich
\* extractor is unavailable or fails and with {title: "", text: "",
\* summary: ""} when the fallback fails too; the tools search_web and
\* extract_content return a string and never raise.
C17_SearchFailsSoft ==
    /\ search_out.done =>
          /\ search_out.result.kind = "return"
          /\ search_out.tool.kind = "return"
          /\ ProviderFails(search_out.ddgs) =>
                /\ search_out.result.value = << >>
                /\ search_out.tool.value = "[]"
    /\ article_out.done =>
          /\ article_out.result.kind = "return"
          /\ article_out.tool.kind = "return"
          /\ RichFails(article_out) /\ article_out.page.kind = "return" =>
                IsFallback(article_out.result.value, article_out.page.value)
          /\ RichFails(article_out) /\ article_out.page.kind = "raise" =>
                article_out.result.value =
                    [title |-> "", text |-> "", summary |-> ""]

C17_Witness ==
    /\ search_out.done
    /\ search_out.ddgs.kind = "return"
    /\ Len(search_out.ddgs.value) = 2
    /\ search_out.ddgs.value[1] # None
    /\ search_out.ddgs.value[2] = None
    /\ search_out.result = Return(<< >>)
    /\ article_out.done
    /\ provider.NEWSPAPER_AVAILABLE
    /\ article_out.article.kind = "raise"
    /\ article_out.page.kind = "raise"
    /\ article_out.result.value = [title |-> "", text |-> "", summary |-> ""]
    /\ article_out.tool.kind = "return"

-----------------------------------------------------------------------------
(* Claims C18 to C20: the credential, the store and the dashboard history *)

\* get_llm_config raises ValueError exactly for the empty key, which is
\* exactly when validate_config returns False
ConfigAgrees ==
    \A key \in ApiKeys \cup {OPENAI_API_KEY} :
        /\ get_llm_config(key) = [kind |-> "raise", exception |-> "ValueError"]
               <=> key = ""
        /\ validate_config(key) = FALSE <=> key = ""

\* while the key is empty a front end has no workflow and has made no call
NoRunWithoutCredential ==
    front_end.name \in {"app", "demo"} /\ OPENAI_API_KEY = "" =>
        /\ workflow = None
        /\ pc = "idle"
        /\ frame = NoFrame
        /\ outcome = NoOutcome
        /\ research_history = << >>

\* the credential has been supplied, in the key field or in the .env file
Supplied == OPENAI_API_KEY # "" \/ front_end.env # ""

\* the front end that reported a missing credential is still running, and
\* reports none once the credential is supplied
StaysUsable ==
    /\ front_end.reported => front_end.at = "running"
    /\ Supplied => ~front_end.reported

\* C18: get_llm_config raises ValueError exactly when the key is empty, which
\* is exactly when validate_config returns False; in the dashboard and in the
\* demo no workflow is created and no conduct_research call is made while the
\* key is empty; the process that reported the missing credential keeps
\* running and a run can be started once the credential is supplied.
C18_MissingCredentialIsNotFatal ==
    /\ ConfigAgrees
    /\ NoRunWithoutCredential
    /\ StaysUsable

\* the step ends a conduct_research call with the given operation
Ends(op) == pc = "chat" /\ pc' = "idle" /\ last_op' = op

Newest(history) == history[Len(history)]

\* the timestamps of the store grow from record to record
InCompletionOrder(history) ==
    \A i, j \in 1..Len(history) :
        i < j => history[i].timestamp < history[j].timestamp

\* C19: a successful conduct_research call appends exactly one record at
\* the end of research_history, the record it returns, whose results and
\* agent_contributions are the extractor and analyzer outputs over the
\* transcript as it stands when the conversation ends; every other step, a
\* failed call and reset() among them, leaves research_history as it is; the
\* records hold no error and stand in completion order.
C19_HistoryIsAppendOnly ==
    /\ [][IF Ends("chat_returns")
          THEN /\ Len(research_history') = Len(research_history) + 1
               /\ SubSeq(research_history', 1, Len(research_history))
                      = research_history
               /\ Newest(research_history') = outcome'.value
               /\ Newest(research_history').results
                      \in _extract_research_results(heap'[group_chat.messages])
               /\ Newest(research_history').agent_contributions
                      = _analyze_agent_contributions(heap'[group_chat.messages])
               /\ heap' = heap
          ELSE research_history' = research_history]_vars
    /\ [](/\ InCompletionOrder(research_history)
          /\ \A i \in 1..Len(research_history) :
                "error" \notin DOMAIN research_history[i])

\* a second successful run has been stored, after the first, with a
\* synthesis in its results
C19_Witness ==
    /\ last_op = "chat_returns"
    /\ Len(research_history) = 2
    /\ research_history[2] = outcome.value
    /\ research_history[1].timestamp < research_history[2].timestamp
    /\ research_history[2].results.synthesis # ""

\* the record the history tab shows in row idx (app.py line 346: the rows
\* run over the dashboard history from its end)
RowRecord(idx) == dashboard_history[Len(dashboard_history) - idx]

\* C20: in the dashboard, the history list of the session and the
\* research_history of the workflow hold the same records in the same order,
\* and export_research_report(-(idx+1)) renders the record of row idx of the
\* history tab, also after a run that failed with an exception whose message
\* is empty.
C20_DashboardHistoryMatchesStore ==
    front_end.name = "app" =>
        /\ dashboard_history = research_history
        /\ \A idx \in 0..(Len(dashboard_history) - 1) :
              export_research_report(research_history, -(idx + 1))
                  = [kind |-> "return", value |-> Report(RowRecord(idx))]

-----------------------------------------------------------------------------
(* Claims C21 and C22 *)

\* the transcript holds a message of one of the three agents whose content is
\* present but is no text
HasUnreadable(messages) ==
    \E i \in 1..Len(messages) :
        /\ "content" \in DOMAIN messages[i]
        /\ "function_call" \in DOMAIN messages[i]
        /\ messages[i].name \in {"research_agent", "synthesis_agent",
                                 "critique_agent"}

\* the step takes messages out of the shared transcript
Shrinks == Len(heap'[group_chat'.messages]) < Len(Messages)

\* the step performs reset(): on its own, or in the submit handler
Resets ==
    \/ last_op' = "reset"
    \/ last_op' = "conduct_research" /\ frame'.caller = "dashboard"

\* C21: when the conversation completes and the extraction fails on a
\* message of the transcript whose content is no text, conduct_research
\* returns (it does not raise) the record {error, topic, timestamp}, appends
\* nothing to research_history and leaves the transcript as it is; the
\* messages stay in the shared transcript until a reset().
C21_ExtractionFailureIsDegraded ==
    /\ [][(pc = "chat" /\ frame.rounds >= 1 /\ pc' = "idle"
             /\ HasUnreadable(Messages) /\ last_op' # "chat_raises") =>
            /\ outcome'.kind = "return"
            /\ DOMAIN outcome'.value = {"error", "topic", "timestamp"}
            /\ outcome'.value.error # ""
            /\ outcome'.value.topic = frame.research_topic
            /\ outcome'.value.timestamp = frame.start_time
            /\ research_history' = research_history
            /\ heap' = heap]_vars
    /\ [][Shrinks => Resets]_vars
    /\ [](last_op = "extract_raises" => HasUnreadable(Messages))

\* a run of two rounds whose second message is a function call of the
\* research agent has ended with the degraded record
C21_Witness ==
    /\ last_op = "extract_raises"
    /\ outcome.kind = "return"
    /\ outcome.value.error = "argument of type 'NoneType' is not iterable"
    /\ research_history = << >>
    /\ Len(Messages) = 2
    /\ Messages[2] = FunctionCall("research_agent")

\* C22: during and after a run started from the dashboard on an empty
\* transcript, the transcript holds no more messages than the value of
\* "Max Conversation Rounds" selected in the sidebar.
C22_RoundsBoundedBySidebar ==
    (front_end.name = "app" /\ pc = "chat" /\ frame.caller = "dashboard"
         /\ frame.found = 0) =>
        Len(Messages) <= front_end.max_rounds

====
